---- MODULE Spec2Model ----
(***************************************************************************)
(* A model of mloggers/logger.py: the abstract Logger (level filtering,     *)
(* message validation, convenience wrappers, call sugar), the process-wide  *)
(* stream redirection (sys.stdout, sys.stderr, warnings.showwarning) and    *)
(* the capturing adapter _RedirectStream.                                   *)
(*                                                                          *)
(* Python calls are synchronous and nest, so the model keeps an explicit    *)
(* call stack: one frame per active call, the head of `stack` being the     *)
(* frame that runs.  A caller's operation (log, print, redirect_streams...) *)
(* starts with an empty stack and is over when the stack is empty again.    *)
(* No code of the module catches an exception, so a raise unwinds the whole *)
(* stack.                                                                   *)
(***************************************************************************)
EXTENDS Integers, Sequences, FiniteSets

VARIABLES
    log_level,    \* Logger._log_level, per logger instance
    backend,      \* what the concrete subclass of Logger does with a handed-off message
    stdout,       \* sys.stdout
    stderr,       \* sys.stderr
    showwarning,  \* warnings.showwarning: 0 is WARNINGS_DEFAULT, l > 0 the lambda bound to logger l
    filters,      \* warnings.filters: "default", "ignore" (set by the caller), "always" and
                  \* "always,ignore" (after filterwarnings("always")), "reset" (emptied)
    registry,     \* per module, its __warningregistry__: the module's warning was recorded
    stale,        \* per module: the filters were mutated since its registry was last consulted
    advised,      \* the advisory of redirect_streams has been displayed
    stack,        \* the call stack, innermost frame first
    ret,          \* the value returned (or exception raised) by the last finished call
    op,           \* the caller's operation in progress or last finished
    calls,        \* the log calls made during op, in order
    written,      \* the chunks written to the original handles during op, in order
    last_set      \* per logger, the last argument given to set_level (kind "ctor": none yet)

vars == <<log_level, backend, stdout, stderr, showwarning, filters, registry,
          stale, advised, stack, ret, op, calls, written, last_set>>

----------------------------------------------------------------------------
(* Bounds *)

\* Most redirect_streams() calls without a reset_streams() in between.
MaxNest == 2
\* The interpreter's recursion limit (sys.getrecursionlimit()), scaled down.
MaxDepth == 9

Loggers == {1, 2}
Chars == {"h", " ", "\n"}
Whitespace == {" ", "\n"}
Backends == {"file", "stdout", "stderr"}
Exceptions == {"TypeError", "AttributeError", "IOError", "RecursionError"}

----------------------------------------------------------------------------
(* mloggers._log_levels.LogLevel: an Enum whose values are dictionaries     *)
(* with a 'level' entry.  INFO is 0 (logger.py line 25); DEBUG is below it  *)
(* (line 26) and WARN, ERROR above, in that order.                          *)

LogLevelNames == {"DEBUG", "INFO", "WARN", "ERROR"}

LogLevel(name) ==
    [kind |-> "LogLevel", name |-> name,
     val  |-> CASE name = "DEBUG" -> 0 - 1
                [] name = "INFO"  -> 0
                [] name = "WARN"  -> 1
                [] name = "ERROR" -> 2]

RegisteredLevels == {LogLevel(n) : n \in LogLevelNames}

\* Values a caller may pass as `level` that are no LogLevel: None, a string, a raw integer.
NoLevel == [kind |-> "None", name |-> "None", val |-> 0]
RawInt(i) == [kind |-> "int", name |-> "int", val |-> i]
UnregisteredLevels ==
    {NoLevel, [kind |-> "str", name |-> "custom", val |-> 0], RawInt(5), RawInt(0 - 5)}

isinstance_LogLevel(level) == level.kind = "LogLevel"

DEFAULT_IMPORTANCE == LogLevel("INFO").val   \* LogLevel.INFO.value['level'], read once at import

----------------------------------------------------------------------------
(* Messages.  kind "str": any object with a callable __str__; "dict": a     *)
(* mapping; "badstr": an object whose __str__ attribute exists but is not   *)
(* callable (class attribute __str__ = None); "nostr": an object whose      *)
(* attribute lookup of __str__ raises AttributeError.                       *)

Message(kind, text) == [kind |-> kind, text |-> text]
Text(t) == Message("str", t)
MessageKinds == {"str", "dict", "badstr", "nostr"}

isinstance_dict(message) == message.kind = "dict"
hasattr__str__(message) == message.kind # "nostr"
callable__str__(message) == message.kind \in {"str", "dict"}
HasStringConversion(message) == hasattr__str__(message) /\ callable__str__(message)

\* str.rstrip(): every trailing whitespace character is removed.
RECURSIVE rstrip(_)
rstrip(s) ==
    IF s = <<>> THEN s
    ELSE IF s[Len(s)] \in Whitespace THEN rstrip(SubSeq(s, 1, Len(s) - 1))
    ELSE s

----------------------------------------------------------------------------
(* Handles.  A handle is one of the two streams of process start            *)
(* (sys.__stdout__, sys.__stderr__) under a stack of _RedirectStream        *)
(* adapters, outermost adapter first; each adapter's _stream is the handle  *)
(* below it.                                                                *)

Handle(base, adapters) == [base |-> base, adapters |-> adapters]
sys__stdout__ == Handle("__stdout__", <<>>)
sys__stderr__ == Handle("__stderr__", <<>>)
WARNINGS_DEFAULT == 0

\* The modules that raise warnings: logger.py (the advisory) and the caller's code.
Modules == {"logger", "caller"}
\* The action the filters give a warning: that of the first filter in the list.
warn_action(f) ==
    CASE f \in {"always", "always,ignore"} -> "always"
      [] f = "ignore" -> "ignore"
      [] OTHER -> "default"
\* warnings.filterwarnings("always"): the filter is put in front of the others.
filterwarnings_always(f) ==
    IF f \in {"ignore", "always,ignore"} THEN "always,ignore" ELSE "always"

IsAdapter(h) == h.adapters # <<>>
\* _RedirectStream.__init__: the adapter remembers its logger, its level and the stream it replaces.
_RedirectStream(logger, level, stream) ==
    Handle(stream.base, <<[logger |-> logger, level |-> level]>> \o stream.adapters)
adapter_logger(h) == Head(h.adapters).logger
adapter_level(h) == Head(h.adapters).level
adapter_stream(h) == Handle(h.base, Tail(h.adapters))

----------------------------------------------------------------------------
(* Logger: the pure parts. *)

\* Logger.__init__ and Logger.set_level: a LogLevel gives its 'level' entry, an integer itself.
value_level(level) == level.val   \* level.value['level'] of a LogLevel
int_value(level) == level.val     \* a raw integer, as it is
\* A set_level that takes only LogLevel members and falls back to the default otherwise.
set_level_levels_only(level) ==
    IF isinstance_LogLevel(level) THEN value_level(level) ELSE DEFAULT_IMPORTANCE

set_level(level) == IF isinstance_LogLevel(level) THEN value_level(level) ELSE int_value(level)

\* Logger.log, the validation: "ok", or the exception the condition's evaluation ends in.
\* The three tests are joined by `and`, evaluated left to right: the third one is
\* evaluated only for a message that is no dict and has no __str__, and its
\* getattr(message, "__str__") has no default.
log_validate(message) ==
    IF isinstance_dict(message) THEN "ok"
    ELSE IF hasattr__str__(message) THEN "ok"
    ELSE IF ~hasattr__str__(message) THEN "AttributeError"
    ELSE IF ~callable__str__(message) THEN "TypeError"
    ELSE "ok"

\* A filter whose boundary is exclusive: a level at the threshold is suppressed too.
log_filter_exclusive(self_log_level, level) ==
    IF isinstance_LogLevel(level) /\ value_level(level) <= self_log_level THEN "False"
    ELSE IF ~isinstance_LogLevel(level) /\ DEFAULT_IMPORTANCE < self_log_level THEN "False"
    ELSE "True"

\* A filter that takes a raw integer level as its own importance.
log_filter_int_importance(self_log_level, level) ==
    IF isinstance_LogLevel(level) /\ value_level(level) < self_log_level THEN "False"
    ELSE IF level.kind = "int" /\ int_value(level) < self_log_level THEN "False"
    ELSE IF level.kind \notin {"LogLevel", "int"} /\ DEFAULT_IMPORTANCE < self_log_level
         THEN "False"
    ELSE "True"

\* A filter that suppresses nothing.
log_filter_never(self_log_level, level) == "True"

\* Logger.log, the filter: "False" (suppressed) or "True".
log_filter(self_log_level, level) ==
    IF isinstance_LogLevel(level) /\ value_level(level) < self_log_level THEN "False"
    ELSE IF ~isinstance_LogLevel(level) /\ DEFAULT_IMPORTANCE < self_log_level THEN "False"
    ELSE "True"

log(self_log_level, message, level) ==
    IF log_validate(message) # "ok" THEN log_validate(message)
    ELSE log_filter(self_log_level, level)

WrapperNames == {"info", "warn", "warning", "error", "debug"}

\* The level each convenience wrapper passes to log; `warning` is an alias of `warn`.
WrapperLevel(fn) ==
    CASE fn = "info"    -> LogLevel("INFO")
      [] fn = "warn"    -> LogLevel("WARN")
      [] fn = "warning" -> LogLevel("WARN")
      [] fn = "error"   -> LogLevel("ERROR")
      [] fn = "debug"   -> LogLevel("DEBUG")

----------------------------------------------------------------------------
(* The call stack. *)

Frame(fn, self, message, level, pc, saved) ==
    [fn |-> fn, self |-> self, message |-> message, level |-> level, pc |-> pc,
     saved |-> saved]

LogFrame(self, message, level) == Frame("log", self, message, level, "base", sys__stdout__)
WrapperFrame(fn, self, message) == Frame(fn, self, message, NoLevel, "call", sys__stdout__)
CallFrame(self, message, level) == Frame("_call_impl", self, message, level, "call", sys__stdout__)
\* An adapter that forwards to the logger of the first redirection in place,
\* the innermost adapter of the handle.
WriteFrame_innermost(h, chunk) ==
    Frame("write", h.adapters[Len(h.adapters)].logger, Text(chunk), adapter_level(h), "enter",
          sys__stdout__)
WriteFrame(h, chunk) ==
    Frame("write", adapter_logger(h), Text(chunk), adapter_level(h), "enter", sys__stdout__)
PrintFrame(by, file, text) == Frame("print", by, Text(text), NoLevel, "text", file)
\* `self` is the logger whose method raises the warning in logger.py, 0 in the caller's code.
WarnFrame(self, text) == Frame("warnings.warn", self, Text(text), NoLevel, "filter", sys__stdout__)
RedirectFrame(self) == Frame("redirect_streams", self, Text(<<>>), NoLevel, "warn", sys__stdout__)

Top == Head(stack)
Running(fn, pcs) == stack # <<>> /\ Top.fn = fn /\ Top.pc \in pcs
Idle == stack = <<>>
At(pc) == [Top EXCEPT !.pc = pc]

\* An exception: nothing in logger.py catches, so every frame is unwound.
Raise(e) == stack' = <<>> /\ ret' = e
\* The running call returns v to its caller.
Return(v) == stack' = Tail(stack) /\ ret' = v
\* The running call moves on.
Goto(frame) == stack' = <<frame>> \o Tail(stack) /\ ret' = ret
\* The running call calls `callee` and will go on as `caller` when it returns.
Invoke(callee, caller) ==
    IF Len(stack) >= MaxDepth THEN Raise("RecursionError")
    ELSE stack' = <<callee, caller>> \o Tail(stack) /\ ret' = ret

\* file.write(chunk) by the running call: an adapter's write is a call, an
\* original handle takes the chunk.
WriteTo(file, chunk, by, caller) ==
    IF IsAdapter(file)
    THEN Invoke(WriteFrame(file, chunk), caller) /\ written' = written
    ELSE /\ written' = Append(written, [stream |-> file.base, text |-> chunk, by |-> by])
         /\ Goto(caller)

LogDepth == Cardinality({i \in 1..Len(stack) : stack[i].fn = "log"})

\* A caller starts an operation.
Begin(name, self, message, level) ==
    /\ Idle
    /\ op' = [name |-> name, self |-> self, message |-> message, level |-> level,
              stream |-> "", stdout0 |-> stdout, stderr0 |-> stderr, showwarning0 |-> showwarning,
              filters0 |-> filters, advised0 |-> advised]
    /\ calls' = <<>>
    /\ written' = <<>>

Process == <<stdout, stderr, showwarning, filters, registry, stale, advised>>
Config == <<log_level, backend, last_set>>
History == <<op, calls, written>>

----------------------------------------------------------------------------
(* What callers pass. *)

LogMessages == {Message(k, <<"h">>) : k \in MessageKinds}
LogLevels == RegisteredLevels \cup UnregisteredLevels
SetLevelArgs == RegisteredLevels \cup {RawInt(1), RawInt(3)}
\* The chunks a caller prints: text, nothing, whitespace only, text followed by
\* whitespace or by line terminators.
Chunks == {<<"h">>, <<>>, <<" ">>, <<"h", " ">>, <<"h", "\n">>, <<"h", "\n", "\n">>}
\* With the streams redirected the callers use fewer levels.
StreamLogLevels == {LogLevel("INFO"), LogLevel("ERROR")}
StreamSetLevelArgs == {LogLevel("INFO"), RawInt(3)}
Advisory == <<"w">>
UserWarning == <<"u">>

----------------------------------------------------------------------------
(* Init: two loggers constructed with the default level, one concrete       *)
(* subclass, nothing redirected, the warning hook as imported, the filters  *)
(* as imported or as a caller that silences warnings has set them.          *)

Init ==
    /\ log_level = [l \in Loggers |-> set_level(LogLevel("INFO"))]
    /\ backend \in Backends
    /\ stdout = sys__stdout__
    /\ stderr = sys__stderr__
    /\ showwarning = WARNINGS_DEFAULT
    /\ filters \in {"default", "ignore"}
    /\ registry = [m \in Modules |-> FALSE]
    /\ stale = [m \in Modules |-> FALSE]
    /\ advised = FALSE
    /\ stack = <<>>
    /\ ret = "None"
    /\ op = [name |-> "init", self |-> 0, message |-> Text(<<>>), level |-> NoLevel,
             stream |-> "", stdout0 |-> sys__stdout__, stderr0 |-> sys__stderr__,
             showwarning0 |-> WARNINGS_DEFAULT, filters0 |-> filters, advised0 |-> FALSE]
    /\ calls = <<>>
    /\ written = <<>>
    /\ last_set = [l \in Loggers |-> [kind |-> "ctor", name |-> "INFO", val |-> 0]]

----------------------------------------------------------------------------
(* The caller's operations. *)

\* logger.log(message, level)
Log(l, message, level) ==
    /\ Begin("log", l, message, level)
    /\ stack' = <<LogFrame(l, message, level)>>
    /\ ret' = "None"
    /\ UNCHANGED <<Process, Config>>

\* logger(message, level)
CallSugar(l, message, level) ==
    /\ Begin("__call__", l, message, level)
    /\ stack' = <<CallFrame(l, message, level)>>
    /\ ret' = "None"
    /\ UNCHANGED <<Process, Config>>

\* logger.info(message), logger.warn(message), ...
Wrapper(fn, l, message) ==
    /\ Begin(fn, l, message, NoLevel)
    /\ stack' = <<WrapperFrame(fn, l, message)>>
    /\ ret' = "None"
    /\ UNCHANGED <<Process, Config>>

\* A set_level that stores the threshold on the class, shared by every instance.
set_level_on_class(l, level) ==
    /\ Begin("set_level", l, Text(<<>>), level)
    /\ log_level' = [k \in Loggers |-> set_level(level)]
    /\ last_set' = [last_set EXCEPT ![l] = level]
    /\ stack' = <<>>
    /\ ret' = "None"
    /\ UNCHANGED <<Process, backend>>

\* logger.set_level(level)
SetLevel(l, level) ==
    /\ Begin("set_level", l, Text(<<>>), level)
    /\ log_level' = [log_level EXCEPT ![l] = set_level(level)]
    /\ last_set' = [last_set EXCEPT ![l] = level]
    /\ stack' = <<>>
    /\ ret' = "None"
    /\ UNCHANGED <<Process, backend>>

\* logger.redirect_streams()
RedirectStreams(l) ==
    /\ Len(stdout.adapters) < MaxNest
    /\ Len(stderr.adapters) < MaxNest
    /\ Begin("redirect_streams", l, Text(<<>>), NoLevel)
    /\ stack' = <<RedirectFrame(l)>>
    /\ ret' = "None"
    /\ UNCHANGED <<Process, Config>>

\* A reset that goes back one redirection: each handle becomes the _stream of
\* the adapter in place.
reset_streams_pop(l) ==
    /\ Begin("reset_streams", l, Text(<<>>), NoLevel)
    /\ stdout' = IF IsAdapter(stdout) THEN adapter_stream(stdout) ELSE stdout
    /\ stderr' = IF IsAdapter(stderr) THEN adapter_stream(stderr) ELSE stderr
    /\ filters' = "reset"
    /\ stale' = [m \in Modules |-> TRUE]
    /\ showwarning' = WARNINGS_DEFAULT
    /\ stack' = <<>>
    /\ ret' = "None"
    /\ UNCHANGED <<registry, advised, Config>>

\* A reset that reads sys.stdout._stream without looking: an original handle has none.
reset_streams_unchecked(l) ==
    /\ Begin("reset_streams", l, Text(<<>>), NoLevel)
    /\ stdout' = sys__stdout__
    /\ stderr' = sys__stderr__
    /\ filters' = "reset"
    /\ stale' = [m \in Modules |-> TRUE]
    /\ showwarning' = WARNINGS_DEFAULT
    /\ stack' = <<>>
    /\ ret' = IF IsAdapter(stdout) THEN "None" ELSE "AttributeError"
    /\ UNCHANGED <<registry, advised, Config>>

\* logger.reset_streams()
reset_streams(l) ==
    /\ Begin("reset_streams", l, Text(<<>>), NoLevel)
    /\ stdout' = sys__stdout__
    /\ stderr' = sys__stderr__
    /\ filters' = "reset"
    /\ stale' = [m \in Modules |-> TRUE]
    /\ showwarning' = WARNINGS_DEFAULT
    /\ stack' = <<>>
    /\ ret' = "None"
    /\ UNCHANGED <<registry, advised, Config>>

\* print(text) and print(text, file=sys.stderr): the file is looked up once.
RawPrint(stream, text) ==
    /\ Idle
    /\ op' = [name |-> "print", self |-> 0, message |-> Text(text), level |-> NoLevel,
              stream |-> stream, stdout0 |-> stdout, stderr0 |-> stderr,
              showwarning0 |-> showwarning, filters0 |-> filters, advised0 |-> advised]
    /\ calls' = <<>>
    /\ written' = <<>>
    /\ stack' = <<PrintFrame(0, IF stream = "stdout" THEN stdout ELSE stderr, text)>>
    /\ ret' = "None"
    /\ UNCHANGED <<Process, Config>>

\* warnings.warn(text) in the caller's code.
UserWarn ==
    /\ Begin("warnings.warn", 0, Text(UserWarning), NoLevel)
    /\ stack' = <<WarnFrame(0, UserWarning)>>
    /\ ret' = "None"
    /\ UNCHANGED <<Process, Config>>

----------------------------------------------------------------------------
(* The steps of the running call. *)

\* A concrete subclass's log starts with the base Logger.log: validation, then
\* the filter.  The call is recorded with the outcome of the base method.
LogBase ==
    /\ Running("log", {"base"})
    /\ LET r == log(log_level[Top.self], Top.message, Top.level)
       IN  /\ calls' = Append(calls, [logger |-> Top.self, message |-> Top.message,
                                       level |-> Top.level, result |-> r,
                                       depth |-> LogDepth, stdout |-> stdout,
                                       stderr |-> stderr])
           /\ IF r \in Exceptions THEN Raise(r)
              ELSE IF r = "False" THEN Return("False")
              ELSE Goto(At("emit"))
    /\ UNCHANGED <<Process, Config, op, written>>

\* Not suppressed: the subclass renders the message and writes it to its
\* destination, which may fail.  A console backend prints to sys.stdout or
\* sys.stderr as they are at that moment.
LogEmit(fails) ==
    /\ Running("log", {"emit"})
    /\ IF fails THEN Raise("IOError")
       ELSE IF ~HasStringConversion(Top.message) THEN Raise("TypeError")
       ELSE IF backend = "file" THEN Return("True")
       ELSE Invoke(PrintFrame(Top.self, IF backend = "stdout" THEN stdout ELSE stderr,
                              Top.message.text),
                   At("emitted"))
    /\ UNCHANGED <<Process, Config, History>>

LogReturn ==
    /\ Running("log", {"emitted"})
    /\ Return("True")
    /\ UNCHANGED <<Process, Config, History>>

\* _call_impl: return self.log(*args, **kwargs)
_call_impl ==
    /\ Running("_call_impl", {"call"})
    /\ Invoke(LogFrame(Top.self, Top.message, Top.level), At("ret"))
    /\ UNCHANGED <<Process, Config, History>>

\* A _call_impl that calls log and drops what it returns.
_call_impl_no_return ==
    /\ Running("_call_impl", {"ret"})
    /\ Return("None")
    /\ UNCHANGED <<Process, Config, History>>

_call_impl_return ==
    /\ Running("_call_impl", {"ret"})
    /\ Return(ret)
    /\ UNCHANGED <<Process, Config, History>>

\* info, warn, warning, error, debug: self.log(message, LogLevel.X, ...)
wrapper_call ==
    /\ stack # <<>> /\ Top.fn \in WrapperNames /\ Top.pc = "call"
    /\ Invoke(LogFrame(Top.self, Top.message, WrapperLevel(Top.fn)), At("ret"))
    /\ UNCHANGED <<Process, Config, History>>

\* ... and nothing is returned.
wrapper_return ==
    /\ stack # <<>> /\ Top.fn \in WrapperNames /\ Top.pc = "ret"
    /\ Return("None")
    /\ UNCHANGED <<Process, Config, History>>

\* print: file.write(text), then file.write("\n").
print_write ==
    /\ Running("print", {"text", "end"})
    /\ WriteTo(Top.saved,
               IF Top.pc = "text" THEN Top.message.text ELSE <<"\n">>,
               IF Top.self = 0 THEN "caller" ELSE "backend",
               At(IF Top.pc = "text" THEN "end" ELSE "done"))
    /\ UNCHANGED <<Process, Config, op, calls>>

print_return ==
    /\ Running("print", {"done"})
    /\ Return("None")
    /\ UNCHANGED <<Process, Config, History>>

\* A write that forwards the chunk as it came.
write_strip_nothing(message) == message

\* _RedirectStream.write, line 215: message.rstrip()
write_strip(message) == rstrip(message)

\* A write that forwards with the adapter still in place as sys.stdout.
write_no_swap ==
    /\ Running("write", {"enter"})
    /\ stdout' = stdout
    /\ LET message == write_strip(Top.message.text)
           me == [Top EXCEPT !.saved = stdout, !.pc = "exit"]
       IN  IF message # <<>>
           THEN Invoke(LogFrame(Top.self, Text(message), Top.level), me)
           ELSE Goto(me)
    /\ UNCHANGED <<stderr, showwarning, filters, registry, stale, advised, Config, History>>

\* A write that puts both original handles in place before the forward.
write_swap_stderr ==
    /\ Running("write", {"enter"})
    /\ stdout' = sys__stdout__
    /\ stderr' = sys__stderr__
    /\ LET message == write_strip(Top.message.text)
           me == [Top EXCEPT !.saved = stdout, !.pc = "exit"]
       IN  IF message # <<>>
           THEN Invoke(LogFrame(Top.self, Text(message), Top.level), me)
           ELSE Goto(me)
    /\ UNCHANGED <<showwarning, filters, registry, stale, advised, Config, History>>

\* _RedirectStream.write, up to the forward: sys.stdout is saved and replaced
\* by sys.__stdout__, the message is stripped and, if anything is left, logged.
write ==
    /\ Running("write", {"enter"})
    /\ stdout' = sys__stdout__
    /\ LET message == write_strip(Top.message.text)
           me == [Top EXCEPT !.saved = stdout, !.pc = "exit"]
       IN  IF message # <<>>
           THEN Invoke(LogFrame(Top.self, Text(message), Top.level), me)
           ELSE Goto(me)
    /\ UNCHANGED <<stderr, showwarning, filters, registry, stale, advised, Config, History>>

\* A write that does not put the saved handle back after the forward.
write_exit_no_reinstall ==
    /\ Running("write", {"exit"})
    /\ stdout' = stdout
    /\ Return("None")
    /\ UNCHANGED <<stderr, showwarning, filters, registry, stale, advised, Config, History>>

\* _RedirectStream.write, after the forward: flush, and sys.stdout is what was saved.
write_exit ==
    /\ Running("write", {"exit"})
    /\ stdout' = Top.saved
    /\ Return("None")
    /\ UNCHANGED <<stderr, showwarning, filters, registry, stale, advised, Config, History>>

\* warnings.warn(text): the registry of the module that warns is cleared if it
\* is older than the filters; a warning recorded in it is dropped; otherwise the
\* filters decide: "ignore" drops it, "always" shows it, the default action
\* records it and shows it.  Showing is warnings.showwarning: the original
\* writes one line to sys.stderr, the hook of redirect_streams is
\* lambda *args: self.warning(str(args[0])).
warnings_warn ==
    /\ Running("warnings.warn", {"filter"})
    /\ LET m == IF Top.self \in Loggers THEN "logger" ELSE "caller"
           recorded == ~stale[m] /\ registry[m]
           action == warn_action(filters)
           shown == ~recorded /\ action # "ignore"
       IN  /\ stale' = [stale EXCEPT ![m] = FALSE]
           /\ registry' = [registry EXCEPT ![m] = recorded \/ action = "default"]
           /\ advised' = (advised \/ (shown /\ m = "logger"))
           /\ IF ~shown
              THEN Return("None") /\ written' = written
              ELSE IF showwarning = WARNINGS_DEFAULT
              THEN WriteTo(stderr, Top.message.text \o <<"\n">>, "showwarning", At("ret"))
              ELSE /\ Invoke(WrapperFrame("warning", showwarning, Top.message), At("ret"))
                   /\ written' = written
    /\ UNCHANGED <<stdout, stderr, showwarning, filters, Config, op, calls>>

warnings_warn_return ==
    /\ Running("warnings.warn", {"ret"})
    /\ Return("None")
    /\ UNCHANGED <<Process, Config, History>>

\* redirect_streams, line 179: the advisory.
redirect_streams_warn ==
    /\ Running("redirect_streams", {"warn"})
    /\ Invoke(WarnFrame(Top.self, Advisory), At("install"))
    /\ UNCHANGED <<Process, Config, History>>

\* A redirect_streams whose two adapters both log at INFO.
redirect_streams_stderr_info ==
    /\ Running("redirect_streams", {"install"})
    /\ stdout' = _RedirectStream(Top.self, LogLevel("INFO"), stdout)
    /\ stderr' = _RedirectStream(Top.self, LogLevel("INFO"), stderr)
    /\ filters' = filterwarnings_always(filters)
    /\ stale' = [m \in Modules |-> TRUE]
    /\ showwarning' = Top.self
    /\ Return("None")
    /\ UNCHANGED <<registry, advised, Config, History>>

\* A redirect_streams that replaces the handles and the hook and leaves the
\* warning filters as they are.
redirect_streams_keep_filters ==
    /\ Running("redirect_streams", {"install"})
    /\ stdout' = _RedirectStream(Top.self, LogLevel("INFO"), stdout)
    /\ stderr' = _RedirectStream(Top.self, LogLevel("ERROR"), stderr)
    /\ showwarning' = Top.self
    /\ Return("None")
    /\ UNCHANGED <<filters, stale, registry, advised, Config, History>>

\* redirect_streams, lines 181-186: the adapters, the filter, the hook.
redirect_streams ==
    /\ Running("redirect_streams", {"install"})
    /\ stdout' = _RedirectStream(Top.self, LogLevel("INFO"), stdout)
    /\ stderr' = _RedirectStream(Top.self, LogLevel("ERROR"), stderr)
    /\ filters' = filterwarnings_always(filters)
    /\ stale' = [m \in Modules |-> TRUE]
    /\ showwarning' = Top.self
    /\ Return("None")
    /\ UNCHANGED <<registry, advised, Config, History>>

----------------------------------------------------------------------------
(* Three specifications over the same actions.  Spec: the streams, with    *)
(* few levels.  SpecLevels: every message, level and threshold, nothing     *)
(* redirected.  SpecThreshold: every operation of a logger, one message.    *)

Next ==
    \/ \E l \in Loggers, lv \in StreamLogLevels : Log(l, Text(<<"h">>), lv)
    \/ \E l \in Loggers, lv \in StreamSetLevelArgs : SetLevel(l, lv)
    \/ \E l \in Loggers : RedirectStreams(l)
    \/ \E l \in Loggers : reset_streams(l)
    \/ \E st \in {"stdout", "stderr"}, t \in Chunks : RawPrint(st, t)
    \/ UserWarn
    \/ LogBase
    \/ \E fails \in BOOLEAN : LogEmit(fails)
    \/ LogReturn
    \/ wrapper_call
    \/ wrapper_return
    \/ print_write
    \/ print_return
    \/ write
    \/ write_exit
    \/ warnings_warn
    \/ warnings_warn_return
    \/ redirect_streams_warn
    \/ redirect_streams

Spec == Init /\ [][Next]_vars

NextLevels ==
    \/ \E l \in Loggers, m \in LogMessages, lv \in LogLevels : Log(l, m, lv)
    \/ \E l \in Loggers, m \in LogMessages, lv \in LogLevels : CallSugar(l, m, lv)
    \/ \E fn \in WrapperNames, l \in Loggers, m \in LogMessages : Wrapper(fn, l, m)
    \/ \E l \in Loggers, lv \in SetLevelArgs : SetLevel(l, lv)
    \/ LogBase
    \/ \E fails \in BOOLEAN : LogEmit(fails)
    \/ LogReturn
    \/ _call_impl
    \/ _call_impl_return
    \/ wrapper_call
    \/ wrapper_return
    \/ print_write
    \/ print_return

\* No warning is raised here: the filters are left as imported.
InitLevels == Init /\ filters = "default"

SpecLevels == InitLevels /\ [][NextLevels]_vars

\* Every operation that a claim about the threshold names, with one message.
NextThreshold ==
    \/ \E l \in Loggers, lv \in StreamLogLevels : Log(l, Text(<<"h">>), lv)
    \/ \E l \in Loggers, lv \in StreamLogLevels : CallSugar(l, Text(<<"h">>), lv)
    \/ \E fn \in WrapperNames, l \in Loggers : Wrapper(fn, l, Text(<<"h">>))
    \/ \E l \in Loggers, lv \in StreamSetLevelArgs : SetLevel(l, lv)
    \/ \E l \in Loggers : RedirectStreams(l)
    \/ \E l \in Loggers : reset_streams(l)
    \/ \E st \in {"stdout", "stderr"} : RawPrint(st, <<"h">>)
    \/ LogBase
    \/ \E fails \in BOOLEAN : LogEmit(fails)
    \/ LogReturn
    \/ _call_impl
    \/ _call_impl_return
    \/ wrapper_call
    \/ wrapper_return
    \/ print_write
    \/ print_return
    \/ write
    \/ write_exit
    \/ warnings_warn
    \/ warnings_warn_return
    \/ redirect_streams_warn
    \/ redirect_streams

SpecThreshold == InitLevels /\ [][NextThreshold]_vars

----------------------------------------------------------------------------
(* The claims. *)

Done == Idle /\ op.name # "init"
Raised == ret \in Exceptions
\* A message log must accept: a mapping, or a value with a string conversion.
ValidMessage(message) == isinstance_dict(message) \/ HasStringConversion(message)
\* The importance of what a caller gives set_level: a level's own, or the integer.
ImportanceOf(arg) == arg.val

\* C1: for registered levels L1, L2 with importance(L1) < importance(L2) and a
\* logger whose threshold is importance(L2), log(msg, L1) is suppressed (False)
\* and log(msg, L2) is not (True), for every valid message.
C1_FilterByImportance ==
    \A i \in 1..Len(calls) : \A L1 \in RegisteredLevels, L2 \in RegisteredLevels :
        LET c == calls[i]
        IN  (/\ L1.val < L2.val
             /\ log_level[c.logger] = L2.val
             /\ ValidMessage(c.message))
            => /\ c.level = L1 => c.result = "False"
               /\ c.level = L2 => c.result = "True"

\* log(msg, INFO) on a logger whose threshold is WARN's importance was suppressed.
C1_Witness ==
    /\ Done /\ op.name = "log" /\ Len(calls) = 1
    /\ log_level[op.self] = LogLevel("WARN").val
    /\ calls[1].level = LogLevel("INFO")
    /\ ValidMessage(calls[1].message)
    /\ calls[1].result = "False"
    /\ ret = "False"

\* C2: after set_level calls the threshold is the importance of the last value
\* set (a raw integer as it is), and a log call with a registered level of
\* exactly that importance is not suppressed; only a strictly lower one is.
C2_SetLevelInclusive ==
    /\ \A l \in Loggers :
          last_set[l].kind # "ctor" => log_level[l] = ImportanceOf(last_set[l])
    /\ \A i \in 1..Len(calls) :
          LET c == calls[i]
          IN  (/\ last_set[c.logger].kind # "ctor"
               /\ isinstance_LogLevel(c.level)
               /\ ValidMessage(c.message))
              => /\ c.level.val = ImportanceOf(last_set[c.logger]) => c.result = "True"
                 /\ c.result = "False" <=> c.level.val < ImportanceOf(last_set[c.logger])

\* set_level(1), a raw integer, then log(msg, WARN): at the threshold, not suppressed.
C2_Witness ==
    /\ Done /\ op.name = "log" /\ Len(calls) = 1
    /\ last_set[op.self] = RawInt(1)
    /\ calls[1].level = LogLevel("WARN")
    /\ calls[1].result = "True"

\* C3: for a level that is no registered Level (None, a string, a raw integer)
\* log is suppressed if and only if INFO's importance is strictly below the
\* threshold; the value given never changes the decision.
C3_UnregisteredIsInfo ==
    \A i \in 1..Len(calls) :
        LET c == calls[i]
        IN  (~isinstance_LogLevel(c.level) /\ ValidMessage(c.message))
            => /\ c.result \in {"True", "False"}
               /\ c.result = "False" <=> LogLevel("INFO").val < log_level[c.logger]

\* log(msg, 5) on a logger whose threshold is 3 was suppressed, as log(msg, INFO) is.
C3_Witness ==
    /\ Done /\ op.name = "log" /\ Len(calls) = 1
    /\ log_level[op.self] = 3
    /\ calls[1].level = RawInt(5)
    /\ ValidMessage(calls[1].message)
    /\ calls[1].result = "False"

\* C4: for a message that is neither a mapping nor has a string conversion, log
\* fails with TypeError, for every level and threshold, before the filter and
\* before any backend write.
C4_TypeErrorOnInvalidMessage ==
    \A i \in 1..Len(calls) :
        ~ValidMessage(calls[i].message) => calls[i].result = "TypeError"

\* C9: info, warn, warning, error and debug call log exactly once with the same
\* message and their fixed level, and yield the outcome of that call.
C9_WrapperYieldsLogOutcome ==
    (Done /\ op.name \in WrapperNames)
    => /\ Len(calls) = 1
       /\ calls[1].logger = op.self
       /\ calls[1].message = op.message
       /\ calls[1].level = LogLevel(CASE op.name = "info" -> "INFO"
                                      [] op.name = "warn" -> "WARN"
                                      [] op.name = "warning" -> "WARN"
                                      [] op.name = "error" -> "ERROR"
                                      [] op.name = "debug" -> "DEBUG")
       /\ ~Raised => ret = calls[1].result

\* What a finished call of log or of the call sugar shows: one log call with the
\* caller's arguments, and its outcome handed to the caller (an exception of the
\* base method or of the backend as it is).
OneLogCallWithOutcome ==
    /\ Len(calls) = 1
    /\ calls[1].logger = op.self
    /\ calls[1].message = op.message
    /\ calls[1].level = op.level
    /\ calls[1].result \in Exceptions => ret = calls[1].result
    /\ calls[1].result = "False" => ret = "False"
    /\ calls[1].result = "True" => ret \in {"True", "IOError", "TypeError"}

\* C10: logger(message, level) makes the same single log call as
\* log(message, level) and returns or raises exactly what it returns or raises.
C10_CallSugarIsLog ==
    (Done /\ op.name \in {"log", "__call__"}) => OneLogCallWithOutcome

\* logger(msg, level) was not suppressed and returned True, as log does.
C10_Witness ==
    /\ Done /\ op.name = "__call__"
    /\ Len(calls) = 1
    /\ calls[1].result = "True"
    /\ ret = "True"

----------------------------------------------------------------------------
(* The claims about the streams. *)

\* The state after redirect_streams() in which print("hello") to standard
\* output is over: the adapter in place forwards to a logger that admits INFO.
PrintedHelloRedirected ==
    /\ Done /\ op.name = "print" /\ op.stream = "stdout"
    /\ op.message.text = <<"h">>
    /\ IsAdapter(op.stdout0)
    /\ log_level[adapter_logger(op.stdout0)] <= LogLevel("INFO").val

\* One log call, log("hello", INFO) on the adapter's logger, and nothing of the
\* caller's text on the original handles.
LoggedExactlyOnce ==
    /\ Len(calls) = 1
    /\ calls[1].logger = adapter_logger(op.stdout0)
    /\ calls[1].message = Text(<<"h">>)
    /\ calls[1].level = LogLevel("INFO")
    /\ \A i \in 1..Len(written) : written[i].by # "caller"

\* C5 as stated: after redirect_streams() on a logger whose threshold admits
\* INFO, print("hello") makes the logger receive log("hello", INFO) exactly
\* once, with no recursive or duplicate log call, and the text is not written
\* to the original standard output by the adapter.
C5_PrintLoggedOnce == PrintedHelloRedirected => LoggedExactlyOnce

\* C5, amended: the same, for a logger whose backend writes nothing to standard
\* error in log.
C5_PrintLoggedOnceNoStderrBackend ==
    (PrintedHelloRedirected /\ backend # "stderr") => LoggedExactlyOnce

\* print("hello") was logged once at INFO and the console backend wrote it to
\* the original standard output.
C5_Witness ==
    /\ PrintedHelloRedirected
    /\ backend = "stdout"
    /\ LoggedExactlyOnce
    /\ calls[1].result = "True"
    /\ ret = "None"
    /\ \E i \in 1..Len(written) :
          written[i] = [stream |-> "__stdout__", text |-> <<"h">>, by |-> "backend"]

\* C6: after redirect_streams() calls and one reset_streams(), sys.stdout,
\* sys.stderr and the warning hook are the ones of process load time, whatever
\* was in place before the last redirection; a print that follows goes to the
\* original standard output and makes no log call.
C6_ResetIsGlobal ==
    /\ (Done /\ op.name = "reset_streams")
       => /\ stdout = sys__stdout__
          /\ stderr = sys__stderr__
          /\ showwarning = WARNINGS_DEFAULT
    /\ (Done /\ op.name = "print" /\ op.stream = "stdout" /\ op.filters0 = "reset")
       => /\ calls = <<>>
          /\ ret = "None"
          /\ written = <<[stream |-> "__stdout__", text |-> op.message.text, by |-> "caller"],
                         [stream |-> "__stdout__", text |-> <<"\n">>, by |-> "caller"]>>

\* reset_streams() after redirect_streams() on one logger and then on the other.
C6_Witness ==
    /\ Done /\ op.name = "reset_streams"
    /\ Len(op.stdout0.adapters) = 2
    /\ op.stdout0.adapters[1].logger # op.stdout0.adapters[2].logger
    /\ op.showwarning0 # WARNINGS_DEFAULT
    /\ stdout = sys__stdout__

\* C7: if the log call raises during an adapter's write, sys.stdout is again
\* the adapter that was in place when write was entered.
C7_RestoreOnForwardError ==
    (/\ Done /\ op.name = "print" /\ op.stream = "stdout"
     /\ IsAdapter(op.stdout0)
     /\ Raised)
    => stdout = op.stdout0

\* C8: reset_streams() twice in a row raises nothing, and the second call
\* leaves sys.stdout, sys.stderr, the warning filters and the warning hook as
\* the first left them.
C8_ResetIdempotent ==
    [][(Idle /\ op.name = "reset_streams" /\ op'.name = "reset_streams")
       => /\ stdout' = stdout
          /\ stderr' = stderr
          /\ filters' = filters
          /\ showwarning' = showwarning
          /\ stack' = <<>>
          /\ ~Raised /\ ret' \notin Exceptions]_vars

\* reset_streams() called on the state a reset_streams() left.
C8_Witness ==
    /\ Done /\ op.name = "reset_streams"
    /\ op.filters0 = "reset"
    /\ op.stdout0 = sys__stdout__
    /\ op.showwarning0 = WARNINGS_DEFAULT
    /\ filters = "reset"
    /\ ret = "None"

\* The log calls made by the call the caller started, not by a backend's own write.
DirectCalls == {i \in 1..Len(calls) : calls[i].depth = 1}

\* C11: after redirect_streams() sys.stderr is an adapter bound to that logger
\* at level ERROR, and a chunk written to standard error whose text is not
\* empty after stripping is forwarded as exactly one log(text, ERROR) call on
\* that logger, never at INFO; an empty one is not forwarded.
C11_StderrForwardedAtError ==
    /\ (Done /\ op.name = "redirect_streams" /\ ~Raised)
       => /\ IsAdapter(stderr)
          /\ adapter_logger(stderr) = op.self
          /\ adapter_level(stderr) = LogLevel("ERROR")
    /\ (Done /\ op.name = "print" /\ op.stream = "stderr" /\ IsAdapter(op.stderr0))
       => LET text == rstrip(op.message.text)
          IN  /\ text # <<>>
                 => /\ DirectCalls = {1}
                    /\ calls[1].logger = adapter_logger(op.stderr0)
                    /\ calls[1].message = Text(text)
                    /\ calls[1].level = LogLevel("ERROR")
              /\ text = <<>> => calls = <<>>
              /\ \A i \in 1..Len(calls) : calls[i].level # LogLevel("INFO")

\* print("h\n", file=sys.stderr) after redirect_streams(): one log("h", ERROR).
C11_Witness ==
    /\ Done /\ op.name = "print" /\ op.stream = "stderr"
    /\ op.message.text = <<"h", "\n">>
    /\ IsAdapter(op.stderr0)
    /\ Len(calls) = 1
    /\ calls[1].message = Text(<<"h">>)
    /\ calls[1].level = LogLevel("ERROR")
    /\ calls[1].result = "True"
    /\ ret = "None"

\* The text of the warning raised by the caller's operation: the advisory in
\* redirect_streams, the caller's own in warnings.warn.
WarningText == IF op.name = "redirect_streams" THEN Advisory ELSE op.message.text

\* C12: from redirect_streams() until reset_streams() every warning raised,
\* repeats and warnings an earlier filter would have dropped included, goes to
\* the hook in place, which makes one log(text, WARN) call through the warn
\* wrapper of its logger, and the original hook is not used; after
\* reset_streams() a warning makes no log call and only the original hook writes.
C12_WarningsToHook ==
    /\ (Done /\ op.name \in {"warnings.warn", "redirect_streams"} /\ op.showwarning0 \in Loggers)
       => /\ DirectCalls = {1}
          /\ calls[1].logger = op.showwarning0
          /\ calls[1].message = Text(WarningText)
          /\ calls[1].level = LogLevel("WARN")
          /\ \A i \in 2..Len(calls) : calls[i].level # LogLevel("WARN")
          /\ \A i \in 1..Len(written) : written[i].by # "showwarning"
    /\ (Done /\ op.name = "warnings.warn" /\ op.filters0 = "reset")
       => /\ calls = <<>>
          /\ written \in {<<>>, <<[stream |-> "__stderr__", text |-> WarningText \o <<"\n">>,
                                   by |-> "showwarning"]>>}

\* A caller that had silenced warnings raises one after redirect_streams(): the
\* hook's logger got log(text, WARN) and nothing was written by the original hook.
C12_Witness ==
    /\ Done /\ op.name = "warnings.warn"
    /\ op.showwarning0 \in Loggers
    /\ op.filters0 = "always,ignore"
    /\ backend = "file"
    /\ Len(calls) = 1
    /\ calls[1].level = LogLevel("WARN")
    /\ calls[1].message = Text(UserWarning)
    /\ calls[1].result = "True"
    /\ written = <<>>
    /\ ret = "None"

\* A chunk without its one trailing line terminator, if it ends with one.
StripOneTerminator(chunk) ==
    IF chunk # <<>> /\ chunk[Len(chunk)] = "\n" THEN SubSeq(chunk, 1, Len(chunk) - 1)
    ELSE chunk

\* C13: the text an adapter forwards to log is the chunk with exactly one
\* trailing line terminator removed and nothing else, and it is forwarded if
\* and only if that text is not empty: "h\n\n" is forwarded as "h\n", a chunk
\* of spaces as it is.
C13_StripOneTerminator ==
    (/\ Done /\ op.name = "print"
     /\ IsAdapter(IF op.stream = "stdout" THEN op.stdout0 ELSE op.stderr0))
    => LET text == StripOneTerminator(op.message.text)
       IN  /\ text # <<>> => (calls # <<>> /\ calls[1].message = Text(text))
           /\ text = <<>> => calls = <<>>

\* The adapter writes in progress that are past their swap of sys.stdout.
Forwarding == {i \in 1..Len(stack) : stack[i].fn = "write" /\ stack[i].pc = "exit"}
\* The writes in progress of adapters bound at `level` (INFO: standard output,
\* ERROR: standard error).
WritesAt(level) == {i \in 1..Len(stack) : stack[i].fn = "write" /\ stack[i].level = level}

\* C14: while an adapter's write is forwarding to log, sys.stdout is the
\* original handle and no adapter, so writes of standard-output adapters never
\* nest, and when the caller's call returns normally sys.stdout is the handle
\* that was in place when it started.
C14_StdoutGuard ==
    /\ Forwarding # {} => stdout = sys__stdout__
    /\ \A i \in 1..Len(calls) : calls[i].depth >= 2 => calls[i].stdout = sys__stdout__
    /\ Cardinality(WritesAt(LogLevel("INFO"))) <= 1
    /\ (Done /\ ~Raised /\ op.name \notin {"redirect_streams", "reset_streams"})
       => stdout = op.stdout0

\* Inside print("h") on a redirected standard output, the console backend is
\* printing the entry to the original handle while the adapter's write waits.
C14_Witness ==
    /\ op.name = "print" /\ op.stream = "stdout" /\ IsAdapter(op.stdout0)
    /\ backend = "stdout"
    /\ Running("print", {"text"})
    /\ Top.self \in Loggers
    /\ Top.saved = sys__stdout__
    /\ Forwarding # {}
    /\ stdout = sys__stdout__

\* print(chunk, file=sys.stderr) is over, standard error being redirected, with
\* a chunk that is forwarded and a logger that admits ERROR.
PrintedToRedirectedStderr ==
    /\ Done /\ op.name = "print" /\ op.stream = "stderr"
    /\ IsAdapter(op.stderr0)
    /\ rstrip(op.message.text) # <<>>
    /\ log_level[adapter_logger(op.stderr0)] <= LogLevel("ERROR").val

\* C15: a write of the standard-error adapter never puts the original standard
\* error in place: sys.stderr is the adapter before, during and after the
\* forward, so a backend that writes to standard error in log re-enters the
\* adapter, and that recursion has no end of its own.
C15_StderrNotGuarded ==
    /\ WritesAt(LogLevel("ERROR")) # {} => (IsAdapter(stderr) /\ stderr = op.stderr0)
    /\ \A i \in 1..Len(calls) : calls[i].stderr = op.stderr0
    /\ (Done /\ op.name = "print") => stderr = op.stderr0
    /\ (PrintedToRedirectedStderr /\ backend = "stderr")
       => /\ ret \in {"RecursionError", "IOError"}
          /\ \A i \in 1..Len(calls) : calls[i].level = LogLevel("ERROR")

\* print("h", file=sys.stderr) with a backend that prints to standard error:
\* log calls nested in one another until the interpreter's recursion limit.
C15_Witness ==
    /\ PrintedToRedirectedStderr
    /\ backend = "stderr"
    /\ ret = "RecursionError"
    /\ Len(calls) >= 2
    /\ \A i \in 1..Len(calls) : calls[i].depth = i /\ calls[i].result = "True"
    /\ stderr = op.stderr0

\* A warning was raised with the hook and the standard-output adapter of
\* redirect_streams in place, for a logger that admits WARN and whose backend
\* prints its entries to standard output.
WarnedWhileRedirected ==
    /\ Done /\ op.name \in {"warnings.warn", "redirect_streams"}
    /\ op.showwarning0 \in Loggers
    /\ IsAdapter(op.stdout0)
    /\ backend = "stdout"
    /\ log_level[op.showwarning0] <= LogLevel("WARN").val

\* C16: the hook calls warn with the adapter still in place as sys.stdout, so
\* the backend's line for the WARN entry is captured by the adapter and
\* forwarded as a second log call, at INFO; that call runs with the original
\* handle in place and nothing more is captured: two log calls per warning.
C16_WarningLoggedTwice ==
    WarnedWhileRedirected
    => /\ Len(calls) \in {1, 2}
       /\ ~Raised => Len(calls) = 2
       /\ calls[1].level = LogLevel("WARN")
       /\ calls[1].stdout = op.stdout0
       /\ Len(calls) = 2
          => /\ calls[2].logger = adapter_logger(op.stdout0)
             /\ calls[2].message = Text(WarningText)
             /\ calls[2].level = LogLevel("INFO")
             /\ calls[2].depth = 2
             /\ calls[2].stdout = sys__stdout__
       /\ \A i \in 1..Len(written) : written[i].stream = "__stdout__"

\* warnings.warn("u") while redirected: log("u", WARN), then log("u", INFO) for
\* the captured line, which the backend printed to the original standard output.
C16_Witness ==
    /\ WarnedWhileRedirected
    /\ op.name = "warnings.warn"
    /\ ret = "None"
    /\ Len(calls) = 2
    /\ calls[1].level = LogLevel("WARN") /\ calls[1].result = "True"
    /\ calls[2].level = LogLevel("INFO") /\ calls[2].result = "True"
    /\ written = <<[stream |-> "__stdout__", text |-> UserWarning, by |-> "backend"],
                   [stream |-> "__stdout__", text |-> <<"\n">>, by |-> "backend"]>>

\* C17: the advisory of redirect_streams is displayed by the first
\* redirect_streams() call only, whatever redirect_streams() and
\* reset_streams() calls follow, and it is raised before the hook is replaced,
\* so the hook a call installs never delivers that call's advisory.
C17_AdvisoryOnce ==
    /\ (Done /\ op.name = "redirect_streams" /\ op.advised0)
       => (calls = <<>> /\ written = <<>>)
    /\ (Done /\ op.name = "redirect_streams" /\ op.showwarning0 = WARNINGS_DEFAULT)
       => calls = <<>>

\* C18: a logger's threshold changes only by set_level on that logger: log,
\* the call sugar, the wrappers, redirect_streams, reset_streams and adapter
\* writes leave every threshold as it is, set_level on one logger leaves the
\* other loggers' thresholds as they are, and a logger constructed without an
\* argument has INFO's importance as threshold.
C18_ThresholdFrame ==
    /\ [](\A l \in Loggers :
             last_set[l].kind = "ctor" => log_level[l] = LogLevel("INFO").val)
    /\ [][log_level' # log_level
           => /\ Idle
              /\ op'.name = "set_level"
              /\ \A l \in Loggers \ {op'.self} : log_level'[l] = log_level[l]]_vars

\* With the streams redirected to logger 2, set_level(3) on logger 1 raised its
\* threshold and logger 2, never set, still has INFO's importance.
C18_Witness ==
    /\ Done /\ op.name = "set_level" /\ op.self = 1
    /\ IsAdapter(stdout) /\ adapter_logger(stdout) = 2
    /\ log_level[1] = 3
    /\ last_set[2].kind = "ctor"
    /\ log_level[2] = LogLevel("INFO").val

\* print(chunk) to a redirected stream is over, with a chunk that is forwarded
\* and a logger whose threshold is strictly above the adapter's level.
PrintedBelowThreshold ==
    /\ Done /\ op.name = "print"
    /\ LET h == IF op.stream = "stdout" THEN op.stdout0 ELSE op.stderr0
       IN  /\ IsAdapter(h)
           /\ log_level[adapter_logger(h)] > adapter_level(h).val
    /\ rstrip(op.message.text) # <<>>

\* C19: text written to a redirected stream whose logger's threshold is
\* strictly above the adapter's level (INFO for standard output, ERROR for
\* standard error) makes one suppressed log call and is written to no original
\* handle: it reaches no destination.
C19_FilteredCaptureLost ==
    PrintedBelowThreshold
    => /\ Len(calls) = 1
       /\ calls[1].message = Text(rstrip(op.message.text))
       /\ calls[1].level = LogLevel(IF op.stream = "stdout" THEN "INFO" ELSE "ERROR")
       /\ calls[1].result = "False"
       /\ written = <<>>
       /\ ret = "None"

\* set_level(3), redirect_streams(), print("h"): log("h", INFO) returned False
\* and nothing was written anywhere.
C19_Witness ==
    /\ PrintedBelowThreshold
    /\ op.stream = "stdout"
    /\ op.message.text = <<"h">>
    /\ log_level[adapter_logger(op.stdout0)] = 3
    /\ Len(calls) = 1
    /\ calls[1].result = "False"
    /\ written = <<>>

\* print(chunk) to standard output is over, redirect_streams() having been
\* called at least twice with no reset_streams() since; the last call was B's.
PrintedDoublyRedirected ==
    /\ Done /\ op.name = "print" /\ op.stream = "stdout"
    /\ Len(op.stdout0.adapters) >= 2
    /\ op.message.text # <<>>

\* C20 as stated: after redirect_streams() on A and then on B with no reset, a
\* non-empty chunk written to standard output causes exactly one log call, on
\* B and at INFO, none on A, and after the write sys.stdout is B's adapter.
C20_NoStacking ==
    PrintedDoublyRedirected
    => /\ Len(calls) = 1
       /\ calls[1].logger = adapter_logger(op.stdout0)
       /\ calls[1].level = LogLevel("INFO")
       /\ ~Raised => stdout = op.stdout0

\* C20, amended: every log call the chunk causes is on B; a chunk with text left
\* after stripping is forwarded by one log(text, INFO) call, another chunk by
\* none; that call is the only one when the backend writes nothing to standard
\* error in log; after a normal return sys.stdout is B's adapter.
C20_NoStackingNoStderrBackend ==
    PrintedDoublyRedirected
    => LET text == rstrip(op.message.text)
       IN  /\ \A i \in 1..Len(calls) : calls[i].logger = adapter_logger(op.stdout0)
           /\ text # <<>>
              => /\ DirectCalls = {1}
                 /\ calls[1].message = Text(text)
                 /\ calls[1].level = LogLevel("INFO")
           /\ text = <<>> => calls = <<>>
           /\ backend # "stderr" => Len(calls) <= 1
           /\ ~Raised => stdout = op.stdout0

\* redirect_streams() on one logger, then on the other, then print("h"): one
\* log("h", INFO) on the second logger, and its adapter is sys.stdout again.
C20_Witness ==
    /\ PrintedDoublyRedirected
    /\ op.message.text = <<"h">>
    /\ op.stdout0.adapters[1].logger # op.stdout0.adapters[2].logger
    /\ backend = "stdout"
    /\ Len(calls) = 1
    /\ calls[1].logger = op.stdout0.adapters[1].logger
    /\ calls[1].level = LogLevel("INFO")
    /\ calls[1].result = "True"
    /\ ret = "None"
    /\ stdout = op.stdout0

====
